---- MODULE Spec2Model ----
(***************************************************************************)
(* Model of the i3 IRC announce bot (stapelberg/go-buildbot-announce).     *)
(*                                                                         *)
(* Strings are modelled as sequences of characters (one-character TLA+     *)
(* strings); a few fixed literals of the program ("[Link info] ",          *)
(* " finished for ") are single tokens of such a sequence.                 *)
(*                                                                         *)
(* Goroutines advance from one blocking point to the next in one step: a   *)
(* send on the unbuffered channel to_irc is an offer (to_irc[p] holds the  *)
(* offered line) that the main loop's select takes.                        *)
(***************************************************************************)
EXTENDS Integers, Sequences, FiniteSets, TLC

\* ------------------------------------------------------------------ bounds
MaxBody == 3
MaxDisconnects == 2
MaxEvents == 2
MaxTicks == 1
MaxListing == 2
MaxRefs == 2
MaxTrail == 2
MaxHTMLLines == 2
MaxProps == 3

\* --------------------------------------------------------------- producers
CommitCalls == {"commit1", "commit2"}
BuildbotCalls == {"buildbot1"}
\* Invocations of the PRIVMSG handler handleLine.
Messages == {"msg1"}
\* The getURLTitle goroutines handleLine starts, one per URL of a message.
FetchTasks == {"url1"}
Producers == CommitCalls \cup BuildbotCalls \cup Messages \cup FetchTasks

\* The getDocFilenames goroutines: 0 is started by main at startup, k by the
\* main loop on the k-th tick of everyDay.
Refreshers == 0..MaxTicks

BoundedSeq(S, n) == UNION {[1..k -> S] : k \in 0..n}

\* Characters a /push_commit request body is made of.
CommitChars == {"a", "\n"}
CommitBodies == BoundedSeq(CommitChars, MaxBody)

VARIABLES
  mainpc,        \* position of main(): "start", "connecting", "select", "privmsg"
  lpc,           \* the goroutine of http.ListenAndServe: "serving", or "fatal" once
                 \* its log.Fatal has ended the process
  session,       \* state of the IRC connection: "Disconnected", "Connecting", "Connected"
  joined,        \* the "connected" handler has joined the channel on this connection
  quitq,         \* number of "disconnected" handlers blocked in quit <- true
  nDisconnects,  \* disconnect events the transport has reported
  nQuitRecv,     \* signals the main loop has received from quit
  nConnects,     \* calls of c.Connect made so far
  nReconnects,   \* calls of c.Connect made by the quit case of the main loop
  to_irc,        \* to_irc[p]: <<line>> while producer p is blocked in to_irc <- line
  sent,          \* the calls of c.Privmsg made so far, in order
  sending,       \* number of c.Privmsg calls in progress
  cpc,           \* /push_commit handler c: "idle", "loop", "done"
  cbody,         \* the request body handler c read
  clines,        \* lines := strings.Split(string(body), "\n") of handler c
  cidx,          \* index into clines of the next line handler c sends
  bpc,           \* /push_buildbot handler b: "idle", "loop", "done"
  bpayload,      \* r.Form.Get("packets") of handler b, <<>> before the call
  bpackets,      \* var packets []BuildbotEvent of handler b, as json.Unmarshal left it
  berr,          \* err of handler b: json.Unmarshal returned an error
  bidx,          \* index into bpackets of the next event handler b looks at
  docfiles,      \* var docfiles []string
  everyDay,      \* 1 while the timer goroutine is blocked in everyDay <- true
  nTicks,        \* ticks the timer goroutine has offered so far
  rpc,           \* getDocFilenames r: "idle", "get", "clear", "append", "done"
  rmatches,      \* the names doclink_re found in the listing r fetched
  ridx,          \* index into rmatches[r] of the next name r appends
  rold,          \* docfiles as it was when r assigned docfiles = []string{}
  hpc,           \* handleLine h: "idle", "loop", "done"
  hmsg,          \* the message handleLine h was called with, <<>> before the call
  hmatches,      \* docmatches of handleLine h
  hidx,          \* index into hmatches[h] of the next match h looks up
  fpc,           \* go getURLTitle f: "idle", "recv" (in resp := <-result), "send", "done"
  fframes        \* the getURLTitle invocations of f, the outermost first

mainVars == <<mainpc, lpc, session, joined, quitq, nDisconnects, nQuitRecv, nConnects,
              nReconnects, sent, sending>>
commitVars == <<cpc, cbody, clines, cidx>>
buildbotVars == <<bpc, bpayload, bpackets, berr, bidx>>
refreshVars == <<everyDay, nTicks, rpc, rmatches, ridx, rold>>
handleVars == <<hpc, hmsg, hmatches, hidx>>
docVars == <<docfiles, refreshVars, handleVars>>
fetchVars == <<fpc, fframes>>
producerVars == <<commitVars, buildbotVars, docVars, fetchVars>>
notCommit == <<buildbotVars, docVars, fetchVars>>
notBuildbot == <<commitVars, docVars, fetchVars>>
notDoc == <<commitVars, buildbotVars, fetchVars>>
notFetch == <<commitVars, buildbotVars, docfiles, refreshVars>>
vars == <<mainVars, to_irc, producerVars>>

\* ---------------------------------------------------------------- strings
\* Index of the first "\n" of s, or 0.
RECURSIVE IndexNL(_, _)
IndexNL(s, i) ==
  IF i > Len(s) THEN 0
  ELSE IF s[i] = "\n" THEN i
  ELSE IndexNL(s, i + 1)

\* strings.Split(s, "\n"): the pieces between newlines; n newlines give n+1
\* pieces, so a trailing newline gives a trailing empty piece and "" gives [""].
RECURSIVE Split(_)
Split(s) ==
  LET i == IndexNL(s, 1) IN
  IF i = 0 THEN <<s>>
  ELSE <<SubSeq(s, 1, i - 1)>> \o Split(SubSeq(s, i + 1, Len(s)))

\* ------------------------------------------------------------ the main loop
\* c.Privmsg(*irc_channel, line): what is handed to the transport. `by` is the
\* goroutine making the call and `from` the producer the line came from.
Privmsg(by, from, line) == [by |-> by, from |-> from, line |-> line]

\* log.Printf("Connecting..."); c.Connect("irc.twice-irc.de")
InitialConnect ==
  /\ mainpc = "start"
  /\ mainpc' = "connecting"
  /\ session' = "Connecting"
  /\ nConnects' = nConnects + 1
  /\ UNCHANGED <<lpc, joined, quitq, nDisconnects, nQuitRecv, nReconnects, sent, sending,
                 to_irc, producerVars>>

\* c.Connect returns nil: the connection is up.
ConnectOK ==
  /\ mainpc = "connecting"
  /\ mainpc' = "select"
  /\ session' = "Connected"
  /\ UNCHANGED <<lpc, joined, quitq, nDisconnects, nQuitRecv, nConnects, nReconnects, sent,
                 sending, to_irc, producerVars>>

\* ConnectFail with the attempt repeated at once instead of going on to the loop.
ConnectFail_retry ==
  /\ mainpc = "connecting"
  /\ nConnects < MaxDisconnects + 2
  /\ nConnects' = nConnects + 1
  /\ UNCHANGED <<lpc, mainpc, session, joined, quitq, nDisconnects, nQuitRecv, nReconnects,
                 sent, sending, to_irc, producerVars>>

\* ConnectFail with log.Fatal in the place of log.Printf.
ConnectFail_fatal ==
  /\ mainpc = "connecting"
  /\ mainpc' = "fatal"
  /\ session' = "Disconnected"
  /\ UNCHANGED <<lpc, joined, quitq, nDisconnects, nQuitRecv, nConnects, nReconnects, sent,
                 sending, to_irc, producerVars>>

\* c.Connect returns an error: it is logged and main goes on to the loop.
ConnectFail ==
  /\ mainpc = "connecting"
  /\ mainpc' = "select"
  /\ session' = "Disconnected"
  /\ UNCHANGED <<lpc, joined, quitq, nDisconnects, nQuitRecv, nConnects, nReconnects, sent,
                 sending, to_irc, producerVars>>

\* http.ListenAndServe("localhost:8080", nil) returns an error:
\* log.Fatal("ListenAndServer: ", ...) ends the process.
ListenAndServeFail ==
  /\ lpc = "serving"
  /\ lpc' = "fatal"
  /\ UNCHANGED <<mainpc, session, joined, quitq, nDisconnects, nQuitRecv, nConnects,
                 nReconnects, sent, sending, to_irc, producerVars>>

\* The "connected" handler: conn.Join(*irc_channel).
ConnectedHandler ==
  /\ session = "Connected"
  /\ ~joined
  /\ joined' = TRUE
  /\ UNCHANGED <<lpc, mainpc, session, quitq, nDisconnects, nQuitRecv, nConnects,
                 nReconnects, sent, sending, to_irc, producerVars>>

\* DisconnectedHandler with a send that gives up when the main loop is not
\* waiting in its select.
DisconnectedHandler_drop ==
  /\ session = "Connected"
  /\ nDisconnects < MaxDisconnects
  /\ session' = "Disconnected"
  /\ joined' = FALSE
  /\ nDisconnects' = nDisconnects + 1
  /\ quitq' = IF mainpc = "select" THEN quitq + 1 ELSE quitq
  /\ UNCHANGED <<lpc, mainpc, nQuitRecv, nConnects, nReconnects, sent, sending, to_irc,
                 producerVars>>

\* The transport reports a disconnect; the "disconnected" handler runs
\* quit <- true and blocks until the main loop receives.
DisconnectedHandler ==
  /\ session = "Connected"
  /\ nDisconnects < MaxDisconnects
  /\ session' = "Disconnected"
  /\ joined' = FALSE
  /\ nDisconnects' = nDisconnects + 1
  /\ quitq' = quitq + 1
  /\ UNCHANGED <<lpc, mainpc, nQuitRecv, nConnects, nReconnects, sent, sending, to_irc,
                 producerVars>>

\* RecvLine holding back a line taken while the session is not connected, in
\* the place of the call of c.Privmsg.
RecvLine_hold(p) ==
  /\ mainpc = "select"
  /\ to_irc[p] # <<>>
  /\ to_irc' = [to_irc EXCEPT ![p] = <<>>]
  /\ IF session = "Connected"
       THEN /\ sent' = Append(sent, Privmsg("main", p, to_irc[p][1]))
            /\ sending' = sending + 1
            /\ mainpc' = "privmsg"
       ELSE UNCHANGED <<sent, sending, mainpc>>
  /\ UNCHANGED <<lpc, session, joined, quitq, nDisconnects, nQuitRecv, nConnects,
                 nReconnects, producerVars>>

\* case line, _ := <-to_irc: c.Privmsg(*irc_channel, line)
RecvLine(p) ==
  /\ mainpc = "select"
  /\ to_irc[p] # <<>>
  /\ to_irc' = [to_irc EXCEPT ![p] = <<>>]
  /\ sent' = Append(sent, Privmsg("main", p, to_irc[p][1]))
  /\ sending' = sending + 1
  /\ mainpc' = "privmsg"
  /\ UNCHANGED <<lpc, session, joined, quitq, nDisconnects, nQuitRecv, nConnects,
                 nReconnects, producerVars>>

\* c.Privmsg returns; back to the select.
PrivmsgReturn ==
  /\ mainpc = "privmsg"
  /\ mainpc' = "select"
  /\ sending' = sending - 1
  /\ UNCHANGED <<lpc, session, joined, quitq, nDisconnects, nQuitRecv, nConnects,
                 nReconnects, sent, to_irc, producerVars>>

\* case <-quit: log.Println("Disconnected. Reconnecting..."); c.Connect(...)
RecvQuit ==
  /\ mainpc = "select"
  /\ quitq > 0
  /\ quitq' = quitq - 1
  /\ nQuitRecv' = nQuitRecv + 1
  /\ nConnects' = nConnects + 1
  /\ nReconnects' = nReconnects + 1
  /\ session' = "Connecting"
  /\ mainpc' = "connecting"
  /\ UNCHANGED <<lpc, joined, nDisconnects, sent, sending, to_irc, producerVars>>

\* ------------------------------------------------- the /push_commit handler
\* body, err := ioutil.ReadAll(r.Body); on an error the handler returns, else
\* lines := strings.Split(string(body), "\n").
PushCommitRead(c) ==
  /\ cpc[c] = "idle"
  /\ \/ /\ cpc' = [cpc EXCEPT ![c] = "done"]
        /\ UNCHANGED <<cbody, clines>>
     \/ \E body \in CommitBodies :
          /\ cbody' = [cbody EXCEPT ![c] = body]
          /\ clines' = [clines EXCEPT ![c] = Split(body)]
          /\ cpc' = [cpc EXCEPT ![c] = "loop"]
  /\ UNCHANGED <<mainVars, to_irc, cidx, notCommit>>

\* PushCommitSend with the loop index advanced twice: every other line is
\* never sent.
PushCommitSend_skip(c) ==
  /\ cpc[c] = "loop"
  /\ to_irc[c] = <<>>
  /\ cidx[c] <= Len(clines[c])
  /\ to_irc' = [to_irc EXCEPT ![c] = <<clines[c][cidx[c]]>>]
  /\ cidx' = [cidx EXCEPT ![c] = cidx[c] + 2]
  /\ UNCHANGED <<mainVars, cpc, cbody, clines, notCommit>>

\* PushCommitSend calling c.Privmsg itself instead of sending on to_irc.
PushCommitSend_direct(c) ==
  /\ cpc[c] = "loop"
  /\ to_irc[c] = <<>>
  /\ cidx[c] <= Len(clines[c])
  /\ sent' = Append(sent, Privmsg(c, c, clines[c][cidx[c]]))
  /\ cidx' = [cidx EXCEPT ![c] = cidx[c] + 1]
  /\ UNCHANGED <<lpc, mainpc, session, joined, quitq, nDisconnects, nQuitRecv, nConnects,
                 nReconnects, sending, to_irc, cpc, cbody, clines, notCommit>>

\* for _, line := range lines { to_irc <- line }: the next send.
PushCommitSend(c) ==
  /\ cpc[c] = "loop"
  /\ to_irc[c] = <<>>
  /\ cidx[c] <= Len(clines[c])
  /\ to_irc' = [to_irc EXCEPT ![c] = <<clines[c][cidx[c]]>>]
  /\ cidx' = [cidx EXCEPT ![c] = cidx[c] + 1]
  /\ UNCHANGED <<mainVars, cpc, cbody, clines, notCommit>>

\* The range loop is over and the last send has completed: the handler returns.
PushCommitReturn(c) ==
  /\ cpc[c] = "loop"
  /\ to_irc[c] = <<>>
  /\ cidx[c] > Len(clines[c])
  /\ cpc' = [cpc EXCEPT ![c] = "done"]
  /\ UNCHANGED <<mainVars, to_irc, cbody, clines, cidx, notCommit>>

\* ------------------------------------------------------- the event decoder
\* JSON values inside a property: a string (its characters in s) or a value of
\* another type (a number, null).
JStr(s) == [t |-> "string", s |-> s]
JNum == [t |-> "number", s |-> <<>>]

\* An element of the packets array:
\*   event    what its "event" member is: "buildFinished" or "other" (a string),
\*            "absent", "nonstring" (e.g. a number), or "nonobject" when the
\*            element is no JSON object at all;
\*   payload  "ok" when payload.build.properties is absent or a list of lists,
\*            "illtyped" when some member on that path has another JSON type;
\*   props    the property list.
Elem(event, payload, props) == [event |-> event, payload |-> payload, props |-> props]

\* new(BuildFinishedEvent): the three fields are empty strings.
NewBuildFinishedEvent == [buildername |-> <<>>, gitversion |-> <<>>, ircsuffix |-> <<>>]

\* StoreKeyValue keeping the first value stored for a key.
StoreKeyValue_first(o, key, value) ==
  IF key = <<"buildername">> /\ o.buildername = <<>> THEN [o EXCEPT !.buildername = value]
  ELSE IF key = <<"gitversion">> /\ o.gitversion = <<>> THEN [o EXCEPT !.gitversion = value]
  ELSE IF key = <<"ircsuffix">> /\ o.ircsuffix = <<>> THEN [o EXCEPT !.ircsuffix = value]
  ELSE o

\* func (o *BuildFinishedEvent) StoreKeyValue(key, value string)
StoreKeyValue(o, key, value) ==
  IF key = <<"buildername">> THEN [o EXCEPT !.buildername = value]
  ELSE IF key = <<"gitversion">> THEN [o EXCEPT !.gitversion = value]
  ELSE IF key = <<"ircsuffix">> THEN [o EXCEPT !.ircsuffix = value]
  ELSE o

\* The loop over event.Payload.Build.Properties, from property i on.
RECURSIVE StoreProperties(_, _, _)
StoreProperties(o, props, i) ==
  IF i > Len(props) THEN o
  ELSE LET property == props[i] IN
       IF Len(property) # 3
         THEN StoreProperties(o, props, i + 1)
         ELSE IF property[1].t = "string" /\ property[2].t = "string"
           THEN StoreProperties(StoreKeyValue(o, property[1].s, property[2].s), props, i + 1)
           ELSE StoreProperties(o, props, i + 1)

\* func (o *BuildFinishedEvent) AsChatLine() string
AsChatLine(o) == o.buildername \o <<" finished for ">> \o o.gitversion \o o.ircsuffix

\* func (o *BuildbotEvent) UnmarshalJSON(data []byte) error.
\* The result: err, and Ev as <<>> (nil) or <<event>>.
UnmarshalJSON(e) ==
  IF e.event \in {"nonobject", "nonstring"}
    THEN [err |-> TRUE, Ev |-> <<>>]
  ELSE IF e.event = "buildFinished"
    THEN IF e.payload = "illtyped"
           THEN [err |-> TRUE, Ev |-> <<>>]
           ELSE [err |-> FALSE,
                 Ev |-> <<StoreProperties(NewBuildFinishedEvent, e.props, 1)>>]
  ELSE [err |-> FALSE, Ev |-> <<>>]

\* json.Unmarshal decoding the elements of an array into the slice, from
\* element i on: it stops at the first element whose UnmarshalJSON fails and
\* leaves what it has decoded so far in the slice.
RECURSIVE UnmarshalElems(_, _, _)
UnmarshalElems(elems, i, acc) ==
  IF i > Len(elems) THEN [err |-> FALSE, packets |-> acc]
  ELSE LET r == UnmarshalJSON(elems[i]) IN
       IF r.err THEN [err |-> TRUE, packets |-> Append(acc, <<>>)]
       ELSE UnmarshalElems(elems, i + 1, Append(acc, r.Ev))

\* err := json.Unmarshal([]byte(r.Form.Get("packets")), &packets): text that
\* is not JSON, or JSON that is no array, leaves packets nil.
UnmarshalPackets(payload) ==
  IF payload.kind # "array" THEN [err |-> TRUE, packets |-> <<>>]
  ELSE UnmarshalElems(payload.elems, 1, <<>>)

\* The payloads a /push_buildbot request is drawn from.
SampleProps ==
  << <<JStr(<<"buildername">>), JStr(<<"x">>), JStr(<<"Builder">>)>>,
     <<JStr(<<"gitversion">>), JStr(<<"4", "2">>), JStr(<<"Build">>)>>,
     <<JStr(<<"ircsuffix">>), JNum, JStr(<<"Build">>)>> >>
BuildbotElems ==
  { Elem("nonobject", "ok", <<>>),
    Elem("nonstring", "ok", <<>>),
    Elem("other", "ok", <<>>),
    Elem("buildFinished", "illtyped", <<>>),
    Elem("buildFinished", "ok", <<>>),
    Elem("buildFinished", "ok", SampleProps) }
BuildbotPayloads ==
  { [kind |-> k, elems |-> <<>>] : k \in {"syntax_error", "not_array"} }
  \cup { [kind |-> "array", elems |-> es] : es \in BoundedSeq(BuildbotElems, MaxEvents) }

\* Properties as buildbot sends them and as it does not: known and unknown
\* keys, a key twice, values and keys that are no strings, and properties of
\* two and of four elements.
SampleProperties ==
  { <<JStr(<<"buildername">>), JStr(<<"x">>), JStr(<<"Builder">>)>>,
    <<JStr(<<"buildername">>), JStr(<<"y">>), JNum>>,
    <<JStr(<<"gitversion">>), JStr(<<"4", "2">>), JStr(<<"Build">>)>>,
    <<JStr(<<"ircsuffix">>), JStr(<<"!">>), JStr(<<"Build">>)>>,
    <<JStr(<<"ircsuffix">>), JNum, JStr(<<"Build">>)>>,
    <<JNum, JStr(<<"z">>), JStr(<<"Build">>)>>,
    <<JStr(<<"buildername">>), JStr(<<"z">>)>>,
    <<JStr(<<"branch">>), JStr(<<"z">>), JStr(<<"Build">>)>>,
    <<JStr(<<"gitversion">>), JStr(<<"z">>), JStr(<<"Build">>), JNum>> }

\* Payloads of one buildFinished event with any list of these properties.
RenderPayloads ==
  { [kind |-> "array", elems |-> <<Elem("buildFinished", "ok", props)>>] :
      props \in BoundedSeq(SampleProperties, MaxProps) }

\* ----------------------------------------------- the /push_buildbot handler
\* NextEv giving up at the first event without an Ev.
NextEv_stop(packets, i) ==
  IF i > Len(packets) THEN i
  ELSE IF packets[i] # <<>> THEN i
  ELSE Len(packets) + 1

\* The least j >= i with packets[j].Ev # nil, or Len(packets) + 1.
RECURSIVE NextEv(_, _)
NextEv(packets, i) ==
  IF i > Len(packets) THEN i
  ELSE IF packets[i] # <<>> THEN i
  ELSE NextEv(packets, i + 1)

\* r.ParseForm(); err := json.Unmarshal(..., &packets); an error is logged and
\* the handler goes on to the loop over packets.
PushBuildbotDecodeOf(b, payload) ==
  /\ bpc[b] = "idle"
  /\ LET r == UnmarshalPackets(payload) IN
       /\ bpayload' = [bpayload EXCEPT ![b] = <<payload>>]
       /\ bpackets' = [bpackets EXCEPT ![b] = r.packets]
       /\ berr' = [berr EXCEPT ![b] = r.err]
  /\ bpc' = [bpc EXCEPT ![b] = "loop"]
  /\ UNCHANGED <<mainVars, to_irc, bidx, notBuildbot>>

PushBuildbotDecode(b) == \E payload \in BuildbotPayloads : PushBuildbotDecodeOf(b, payload)

\* for _, event := range packets { if event.Ev != nil { to_irc <- ... } }:
\* on to the next event that has an Ev, and the send of its line.
PushBuildbotSend(b) ==
  /\ bpc[b] = "loop"
  /\ to_irc[b] = <<>>
  /\ LET j == NextEv(bpackets[b], bidx[b]) IN
       /\ j <= Len(bpackets[b])
       /\ to_irc' = [to_irc EXCEPT ![b] = <<AsChatLine(bpackets[b][j][1])>>]
       /\ bidx' = [bidx EXCEPT ![b] = j + 1]
  /\ UNCHANGED <<mainVars, bpc, bpayload, bpackets, berr, notBuildbot>>

\* No event with an Ev is left and the last send has completed: the handler
\* returns.
PushBuildbotReturn(b) ==
  /\ bpc[b] = "loop"
  /\ to_irc[b] = <<>>
  /\ NextEv(bpackets[b], bidx[b]) > Len(bpackets[b])
  /\ bpc' = [bpc EXCEPT ![b] = "done"]
  /\ UNCHANGED <<mainVars, to_irc, bpayload, bpackets, berr, bidx, notBuildbot>>

\* --------------------------------------------------- the documentation index
\* The directory listing getDocFilenames fetches, as the sequence of its
\* anchors: text is the anchor's text up to its extension ext.
Anchor(text, ext) == [text |-> text, ext |-> ext]
ListingAnchors ==
  { Anchor(<<"a">>, "html"), Anchor(<<"b">>, "html"), Anchor(<<"c">>, "png") }
Listings == BoundedSeq(ListingAnchors, MaxListing)

\* doclink_re.FindAllStringSubmatch(string(body), -1), each match's match[1]:
\* the texts of the anchors that end in .html, in the order of the listing.
RECURSIVE DocLinks(_, _)
DocLinks(body, i) ==
  IF i > Len(body) THEN <<>>
  ELSE IF body[i].ext = "html" THEN <<body[i].text>> \o DocLinks(body, i + 1)
  ELSE DocLinks(body, i + 1)

\* The timer goroutine: time.Sleep(24 * time.Hour); everyDay <- true.
EveryDayTick ==
  /\ everyDay = 0
  /\ nTicks < MaxTicks
  /\ everyDay' = 1
  /\ nTicks' = nTicks + 1
  /\ UNCHANGED <<mainVars, to_irc, docfiles, rpc, rmatches, ridx, rold, handleVars, notDoc>>

\* RecvEveryDay calling getDocFilenames() itself, without the go statement:
\* main is in the call until that refresh returns.
RecvEveryDay_sync ==
  /\ mainpc = "select"
  /\ everyDay = 1
  /\ everyDay' = 0
  /\ rpc' = [rpc EXCEPT ![nTicks] = "get"]
  /\ mainpc' = "getDocFilenames"
  /\ UNCHANGED <<lpc, session, joined, quitq, nDisconnects, nQuitRecv, nConnects,
                 nReconnects, sent, sending, to_irc, docfiles, nTicks, rmatches, ridx, rold,
                 handleVars, notDoc>>

\* case <-everyDay: go getDocFilenames()
RecvEveryDay ==
  /\ mainpc = "select"
  /\ everyDay = 1
  /\ everyDay' = 0
  /\ rpc' = [rpc EXCEPT ![nTicks] = "get"]
  /\ UNCHANGED <<mainVars, to_irc, docfiles, nTicks, rmatches, ridx, rold, handleVars,
                 notDoc>>

\* resp, err := http.Get(...) or ioutil.ReadAll(resp.Body) fails: the error is
\* logged and getDocFilenames returns.
RefreshFail(r) ==
  /\ rpc[r] = "get"
  /\ rpc' = [rpc EXCEPT ![r] = "done"]
  /\ UNCHANGED <<mainVars, to_irc, docfiles, everyDay, nTicks, rmatches, ridx, rold,
                 handleVars, notDoc>>

\* The listing has been read: matches := doclink_re.FindAllStringSubmatch(...).
RefreshGet(r) ==
  /\ rpc[r] = "get"
  /\ \E body \in Listings :
       rmatches' = [rmatches EXCEPT ![r] = DocLinks(body, 1)]
  /\ rpc' = [rpc EXCEPT ![r] = "clear"]
  /\ UNCHANGED <<mainVars, to_irc, docfiles, everyDay, nTicks, ridx, rold, handleVars,
                 notDoc>>

\* docfiles = []string{}
RefreshClear(r) ==
  /\ rpc[r] = "clear"
  /\ rold' = [rold EXCEPT ![r] = docfiles]
  /\ docfiles' = <<>>
  /\ rpc' = [rpc EXCEPT ![r] = "append"]
  /\ UNCHANGED <<mainVars, to_irc, everyDay, nTicks, rmatches, ridx, handleVars, notDoc>>

\* for _, match := range matches { docfiles = append(docfiles, match[1]) }:
\* one append.
RefreshAppend(r) ==
  /\ rpc[r] = "append"
  /\ ridx[r] <= Len(rmatches[r])
  /\ docfiles' = Append(docfiles, rmatches[r][ridx[r]])
  /\ ridx' = [ridx EXCEPT ![r] = ridx[r] + 1]
  /\ UNCHANGED <<mainVars, to_irc, everyDay, nTicks, rpc, rmatches, rold, handleVars,
                 notDoc>>

\* The loop over matches is over: log.Printf("docfiles = %s", docfiles), return.
RefreshReturn(r) ==
  /\ rpc[r] = "append"
  /\ ridx[r] > Len(rmatches[r])
  /\ rpc' = [rpc EXCEPT ![r] = "done"]
  /\ UNCHANGED <<mainVars, to_irc, docfiles, everyDay, nTicks, rmatches, ridx, rold,
                 handleVars, notDoc>>

\* ------------------------------------------- handleLine (documentation refs)
\* A match of docref_re: match[1] is the name after ">", match[2] the
\* "#fragment" or "".
DocRef(name, frag) == [name |-> name, frag |-> frag]
DocRefs ==
  { DocRef(<<"a">>, <<>>), DocRef(<<"A">>, <<>>), DocRef(<<"b">>, <<"#", "s">>),
    DocRef(<<"d">>, <<>>) }

\* An inbound PRIVMSG: line.Args[0] is its target; of its text line.Args[1],
\* the URLs url_re finds in it and the documentation references docref_re
\* finds in it, each in order.
ChatMessage(target, urls, refs) == [target |-> target, urls |-> urls, refs |-> refs]

\* The messages this handleLine is called with: with any documentation
\* references, and with or without a URL.
ChatMessages ==
  { ChatMessage(t, us, rs) :
      t \in {"#i3", "i3"}, us \in BoundedSeq({<<"u">>}, 1), rs \in BoundedSeq(DocRefs, MaxRefs) }

\* strings.ToLower(match[1]), for the characters names are made of here.
\* handleLine computes it as docref and logs it.
ToLower(name) == [i \in 1..Len(name) |-> IF name[i] = "A" THEN "a" ELSE name[i]]

\* *irc_channel
irc_channel == "#i3"

\* for _, valid_doc := range docfiles { if valid_doc == match[1] { ... } }
IsValidDoc(files, match) == \E i \in 1..Len(files) : files[i] = match.name

\* fmt.Sprintf("[Documentation reference] http://i3wm.org/docs/%s.html%s", ...)
DocRefLine(match) ==
  <<"[Documentation reference] http://i3wm.org/docs/">> \o match.name
    \o <<".", "h", "t", "m", "l">> \o match.frag

\* handleLine is called with a message: one for another target than the
\* channel is logged and ignored; else docmatches := docref_re.FindAll...
HandleLineCall(h) ==
  /\ hpc[h] = "idle"
  /\ \E msg \in ChatMessages :
       IF msg.target # irc_channel
         THEN /\ hpc' = [hpc EXCEPT ![h] = "done"]
              /\ hmsg' = [hmsg EXCEPT ![h] = <<msg>>]
              /\ UNCHANGED hmatches
         ELSE /\ hpc' = [hpc EXCEPT ![h] = "loop"]
              /\ hmsg' = [hmsg EXCEPT ![h] = <<msg>>]
              /\ hmatches' = [hmatches EXCEPT ![h] = msg.refs]
  /\ UNCHANGED <<mainVars, to_irc, docfiles, refreshVars, hidx, notDoc>>

\* One iteration of the loop over docmatches: docfiles is read as it is now,
\* and a match found in it is sent on to_irc.
HandleLineMatch(h) ==
  /\ hpc[h] = "loop"
  /\ to_irc[h] = <<>>
  /\ hidx[h] <= Len(hmatches[h])
  /\ LET match == hmatches[h][hidx[h]] IN
       to_irc' = IF IsValidDoc(docfiles, match)
                   THEN [to_irc EXCEPT ![h] = <<DocRefLine(match)>>]
                   ELSE to_irc
  /\ hidx' = [hidx EXCEPT ![h] = hidx[h] + 1]
  /\ UNCHANGED <<mainVars, docfiles, refreshVars, hpc, hmsg, hmatches, notDoc>>

\* The loop over docmatches is over and the last send has completed.
HandleLineReturn(h) ==
  /\ hpc[h] = "loop"
  /\ to_irc[h] = <<>>
  /\ hidx[h] > Len(hmatches[h])
  /\ hpc' = [hpc EXCEPT ![h] = "done"]
  /\ UNCHANGED <<mainVars, to_irc, docfiles, refreshVars, hmsg, hmatches, hidx, notDoc>>

\* ---------------------------------------------------------- the title fetcher
\* The URLs url_re finds in a message: "http://..." up to the next space.
\* "u" stands for the part up to the last characters, which may be ",", ")"
\* or another "u".
URLs == { <<"u">> \o t : t \in BoundedSeq({"u", ",", ")"}, MaxTrail) }

\* A line of a response body: <<>> when titleRegexp does not match it, else
\* <<inner>> with the text between <title> and </title>.
HTMLLines == { <<>>, << <<"T">> >>, << <<"S">> >> }
HTMLBodies == BoundedSeq(HTMLLines, MaxHTMLLines)

\* What a send on result carries: nil, or the response of http.Get.
NilResp == [nil |-> TRUE, status |-> 0, body |-> <<>>]
Resp(status, body) == [nil |-> FALSE, status |-> status, body |-> body]
Responses ==
  { Resp(404, <<>>), Resp(500, <<>>) } \cup { Resp(200, b) : b \in HTMLBodies }

\* strings.HasSuffix(url, c) for a one-character c
HasSuffix(url, c) == Len(url) > 0 /\ url[Len(url)] = c

\* TrimRight removing one trailing character of cutset only.
TrimRight_one(url, cutset) ==
  IF Len(url) > 0 /\ url[Len(url)] \in cutset
    THEN SubSeq(url, 1, Len(url) - 1)
    ELSE url

\* strings.TrimRight(url, cutset): url without all its trailing characters
\* that are in cutset.
RECURSIVE TrimRight(_, _)
TrimRight(url, cutset) ==
  IF Len(url) > 0 /\ url[Len(url)] \in cutset
    THEN TrimRight(SubSeq(url, 1, Len(url) - 1), cutset)
    ELSE url

\* One invocation of getURLTitle(url): result := make(chan *http.Response, 1)
\* and the two goroutines it starts.
\*   get    the http.Get goroutine: "running", "blocked" (in its send), "done"
\*   timer  the time.Sleep goroutine: "sleeping", "blocked", "done"
\*   chan   the buffer of result: whose value it holds, "get" or "timer"
\*   late   the timer fired while http.Get had not completed
\*   recv   <<>> until resp := <-result has received, then <<the value>>
\* What http.Get returned is drawn when its value is received: nothing reads
\* it before.
NewFrame(url) ==
  [url |-> url, get |-> "running", timer |-> "sleeping", chan |-> <<>>,
   late |-> FALSE, recv |-> <<>>]

\* FirstTitle going on to the last line that matches.
RECURSIVE FirstTitle_last(_, _)
FirstTitle_last(body, i) ==
  IF i > Len(body) THEN <<>>
  ELSE IF FirstTitle_last(body, i + 1) # <<>> THEN FirstTitle_last(body, i + 1)
  ELSE body[i]

\* The inner text of the first line of body that titleRegexp matches, as
\* <<inner>>, or <<>> when no line matches before the body ends.
RECURSIVE FirstTitle(_, _)
FirstTitle(body, i) ==
  IF i > Len(body) THEN <<>>
  ELSE IF body[i] # <<>> THEN body[i]
  ELSE FirstTitle(body, i + 1)

\* fmt.Sprintf("[Link info] %s", string(matches[1]))
LinkInfo(inner) == <<"[Link info] ">> \o inner

\* The frames of the goroutines go getURLTitle(url) starts for urls[i..].
RECURSIVE StartFetches(_, _, _)
StartFetches(urls, i, frames) ==
  IF i > Len(urls) THEN frames
  ELSE LET f == CHOOSE t \in FetchTasks : frames[t] = <<>> /\ fpc[t] = "idle"
       IN StartFetches(urls, i + 1, [frames EXCEPT ![f] = <<NewFrame(urls[i])>>])

\* HandleLineURLs without the check of the target.
HandleLineURLs_any(h) ==
  /\ hpc[h] = "idle"
  /\ hpc' = [hpc EXCEPT ![h] = "done"]
  /\ \E msg \in { ChatMessage(t, us, <<>>) :
                    t \in {"#i3", "i3"}, us \in BoundedSeq({<<"u">>}, 1) } :
       /\ hmsg' = [hmsg EXCEPT ![h] = <<msg>>]
       /\ fframes' = [f \in FetchTasks |->
                        IF msg.urls # <<>> THEN <<[url |-> msg.urls[1], get |-> "running",
                                                   timer |-> "sleeping", chan |-> <<>>,
                                                   late |-> FALSE, recv |-> <<>>]>>
                        ELSE fframes[f]]
       /\ fpc' = [f \in FetchTasks |-> IF fframes'[f] # <<>> THEN "recv" ELSE fpc[f]]
  /\ UNCHANGED <<mainVars, to_irc, hmatches, hidx, notFetch>>

\* The messages this handleLine is called with: with any URLs, and with or
\* without a documentation reference.
URLMessages ==
  { ChatMessage(t, us, rs) :
      t \in {"#i3", "i3"}, us \in BoundedSeq(URLs, Cardinality(FetchTasks)),
      rs \in BoundedSeq({DocRef(<<"a">>, <<>>)}, 1) }

\* handleLine with a message for the channel: go getURLTitle(match[0]) for
\* every URL in it; a message for another target is logged and ignored.
HandleLineURLsOf(h, msg) ==
  /\ hpc[h] = "idle"
  /\ hpc' = [hpc EXCEPT ![h] = "done"]
  /\ hmsg' = [hmsg EXCEPT ![h] = <<msg>>]
  /\ IF msg.target # irc_channel
       THEN UNCHANGED <<fpc, fframes>>
       ELSE /\ fframes' = StartFetches(msg.urls, 1, fframes)
            /\ fpc' = [f \in FetchTasks |-> IF fframes'[f] # <<>> THEN "recv" ELSE fpc[f]]
  /\ UNCHANGED <<mainVars, to_irc, hmatches, hidx, notFetch>>

HandleLineURLs(h) == \E msg \in URLMessages : HandleLineURLsOf(h, msg)

\* CanSend for a result channel without a buffer: a send completes only while
\* the receive is waiting.
CanSend_unbuffered(fr) == Len(fr.chan) < 1 /\ fr.recv = <<>>

\* A send on the result channel of a frame goes into the buffer if that is
\* empty; else the sender blocks.
CanSend(fr) == Len(fr.chan) < 1

\* resp, err := http.Get(url) returns and the goroutine sends nil (an error)
\* or resp on result.
GetDone(f, k) ==
  /\ k \in 1..Len(fframes[f])
  /\ fframes[f][k].get = "running"
  /\ LET fr == fframes[f][k] IN
       fframes' = [fframes EXCEPT ![f][k] =
                     IF CanSend(fr)
                       THEN [fr EXCEPT !.get = "done", !.chan = <<"get">>]
                       ELSE [fr EXCEPT !.get = "blocked"]]
  /\ UNCHANGED <<mainVars, to_irc, fpc, handleVars, notFetch>>

\* The blocked send of the http.Get goroutine completes.
GetUnblock(f, k) ==
  /\ k \in 1..Len(fframes[f])
  /\ fframes[f][k].get = "blocked"
  /\ CanSend(fframes[f][k])
  /\ fframes' = [fframes EXCEPT ![f][k].get = "done", ![f][k].chan = <<"get">>]
  /\ UNCHANGED <<mainVars, to_irc, fpc, handleVars, notFetch>>

\* time.Sleep(10 * time.Second) returns and the goroutine sends nil on result.
TimerFire(f, k) ==
  /\ k \in 1..Len(fframes[f])
  /\ fframes[f][k].timer = "sleeping"
  /\ LET fr == fframes[f][k]
         fr2 == [fr EXCEPT !.late = (fr.get = "running")] IN
       fframes' = [fframes EXCEPT ![f][k] =
                     IF CanSend(fr)
                       THEN [fr2 EXCEPT !.timer = "done", !.chan = <<"timer">>]
                       ELSE [fr2 EXCEPT !.timer = "blocked"]]
  /\ UNCHANGED <<mainVars, to_irc, fpc, handleVars, notFetch>>

\* The blocked send of the timer goroutine completes.
TimerUnblock(f, k) ==
  /\ k \in 1..Len(fframes[f])
  /\ fframes[f][k].timer = "blocked"
  /\ CanSend(fframes[f][k])
  /\ fframes' = [fframes EXCEPT ![f][k].timer = "done", ![f][k].chan = <<"timer">>]
  /\ UNCHANGED <<mainVars, to_irc, fpc, handleVars, notFetch>>

\* What getURLTitle does with the value v received from result, up to its
\* return or its send on to_irc: nil returns; a 404 for a url ending in ","
\* or ")" calls getURLTitle(strings.TrimRight(url, ",)")); another status
\* than 200 returns; else the body is read line by line up to the first title.
Received(f, v) ==
  LET k == Len(fframes[f])
      fr == [fframes[f][k] EXCEPT !.chan = <<>>, !.recv = <<v>>]
      title == FirstTitle(v.body, 1)
  IN
    IF v.nil
      THEN /\ fframes' = [fframes EXCEPT ![f][k] = fr]
           /\ fpc' = [fpc EXCEPT ![f] = "done"]
           /\ UNCHANGED to_irc
    ELSE IF v.status = 404 /\ (HasSuffix(fr.url, ",") \/ HasSuffix(fr.url, ")"))
      THEN /\ fframes' = [fframes EXCEPT ![f] =
                 Append([fframes[f] EXCEPT ![k] = fr],
                        NewFrame(TrimRight(fr.url, {",", ")"})))]
           /\ UNCHANGED <<fpc, to_irc>>
    ELSE IF v.status # 200 \/ title = <<>>
      THEN /\ fframes' = [fframes EXCEPT ![f][k] = fr]
           /\ fpc' = [fpc EXCEPT ![f] = "done"]
           /\ UNCHANGED to_irc
    ELSE /\ fframes' = [fframes EXCEPT ![f][k] = fr]
         /\ fpc' = [fpc EXCEPT ![f] = "send"]
         /\ to_irc' = [to_irc EXCEPT ![f] = <<LinkInfo(title[1])>>]

\* FetchRecv receiving again after the timer's nil instead of returning.
FetchRecv_wait(f) ==
  /\ fpc[f] = "recv"
  /\ fframes[f][Len(fframes[f])].chan # <<>>
  /\ IF fframes[f][Len(fframes[f])].chan[1] = "timer"
       THEN /\ fframes' = [fframes EXCEPT ![f][Len(fframes[f])].chan = <<>>]
            /\ UNCHANGED <<fpc, to_irc>>
       ELSE \E v \in Responses \cup {NilResp} : Received(f, v)
  /\ UNCHANGED <<mainVars, handleVars, notFetch>>

\* resp := <-result: the value in the buffer is the timer's nil, or what
\* http.Get returned: nil after an error, else a response.
FetchRecv(f) ==
  /\ fpc[f] = "recv"
  /\ fframes[f][Len(fframes[f])].chan # <<>>
  /\ IF fframes[f][Len(fframes[f])].chan[1] = "timer"
       THEN Received(f, NilResp)
       ELSE \E v \in Responses \cup {NilResp} : Received(f, v)
  /\ UNCHANGED <<mainVars, handleVars, notFetch>>

\* The send of the title line has completed: getURLTitle returns.
FetchReturn(f) ==
  /\ fpc[f] = "send"
  /\ to_irc[f] = <<>>
  /\ fpc' = [fpc EXCEPT ![f] = "done"]
  /\ UNCHANGED <<mainVars, to_irc, fframes, handleVars, notFetch>>

\* ------------------------------------------------------------ specification
Init ==
  /\ mainpc = "start"
  /\ lpc = "serving"
  /\ session = "Disconnected"
  /\ joined = FALSE
  /\ quitq = 0
  /\ nDisconnects = 0
  /\ nQuitRecv = 0
  /\ nConnects = 0
  /\ nReconnects = 0
  /\ to_irc = [p \in Producers |-> <<>>]
  /\ sent = <<>>
  /\ sending = 0
  /\ cpc = [c \in CommitCalls |-> "idle"]
  /\ cbody = [c \in CommitCalls |-> <<>>]
  /\ clines = [c \in CommitCalls |-> <<>>]
  /\ cidx = [c \in CommitCalls |-> 1]
  /\ bpc = [b \in BuildbotCalls |-> "idle"]
  /\ bpayload = [b \in BuildbotCalls |-> <<>>]
  /\ bpackets = [b \in BuildbotCalls |-> <<>>]
  /\ berr = [b \in BuildbotCalls |-> FALSE]
  /\ bidx = [b \in BuildbotCalls |-> 1]
  /\ docfiles = <<>>
  /\ everyDay = 0
  /\ nTicks = 0
  /\ rpc = [r \in Refreshers |-> IF r = 0 THEN "get" ELSE "idle"]
  /\ rmatches = [r \in Refreshers |-> <<>>]
  /\ ridx = [r \in Refreshers |-> 1]
  /\ rold = [r \in Refreshers |-> <<>>]
  /\ hpc = [h \in Messages |-> "idle"]
  /\ hmsg = [h \in Messages |-> <<>>]
  /\ hmatches = [h \in Messages |-> <<>>]
  /\ hidx = [h \in Messages |-> 1]
  /\ fpc = [f \in FetchTasks |-> "idle"]
  /\ fframes = [f \in FetchTasks |-> <<>>]

\* main() up to and including the select's line case, without the transport's
\* events.
MainRelay ==
  \/ InitialConnect
  \/ ConnectOK
  \/ ConnectFail
  \/ \E p \in Producers : RecvLine(p)
  \/ PrivmsgReturn

\* Concurrent /push_commit calls and the relay of their lines.
NextCommit ==
  \/ MainRelay
  \/ \E c \in CommitCalls : PushCommitRead(c)
  \/ \E c \in CommitCalls : PushCommitSend(c)
  \/ \E c \in CommitCalls : PushCommitReturn(c)

SpecCommit == Init /\ [][NextCommit]_vars

\* A /push_buildbot call next to a /push_commit call.
NextWebhook ==
  \/ MainRelay
  \/ PushCommitRead("commit1")
  \/ PushCommitSend("commit1")
  \/ PushCommitReturn("commit1")
  \/ \E b \in BuildbotCalls : PushBuildbotDecode(b)
  \/ \E b \in BuildbotCalls : PushBuildbotSend(b)
  \/ \E b \in BuildbotCalls : PushBuildbotReturn(b)

SpecWebhook == Init /\ [][NextWebhook]_vars

\* A /push_buildbot call with one buildFinished event, over all the property
\* lists.
NextRender ==
  \/ MainRelay
  \/ \E b \in BuildbotCalls : \E payload \in RenderPayloads : PushBuildbotDecodeOf(b, payload)
  \/ \E b \in BuildbotCalls : PushBuildbotSend(b)
  \/ \E b \in BuildbotCalls : PushBuildbotReturn(b)

SpecRender == Init /\ [][NextRender]_vars

\* The documentation index: its refreshes and the handler that reads it.
NextDoc ==
  \/ MainRelay
  \/ EveryDayTick
  \/ RecvEveryDay
  \/ \E r \in Refreshers : RefreshFail(r)
  \/ \E r \in Refreshers : RefreshGet(r)
  \/ \E r \in Refreshers : RefreshClear(r)
  \/ \E r \in Refreshers : RefreshAppend(r)
  \/ \E r \in Refreshers : RefreshReturn(r)
  \/ \E h \in Messages : HandleLineCall(h)
  \/ \E h \in Messages : HandleLineMatch(h)
  \/ \E h \in Messages : HandleLineReturn(h)

SpecDoc == Init /\ [][NextDoc]_vars

\* The title fetches a chat message starts.
NextFetch ==
  \/ MainRelay
  \/ \E h \in Messages : HandleLineURLs(h)
  \/ \E f \in FetchTasks : \E k \in 1..(MaxTrail + 1) : GetDone(f, k)
  \/ \E f \in FetchTasks : \E k \in 1..(MaxTrail + 1) : GetUnblock(f, k)
  \/ \E f \in FetchTasks : \E k \in 1..(MaxTrail + 1) : TimerFire(f, k)
  \/ \E f \in FetchTasks : \E k \in 1..(MaxTrail + 1) : TimerUnblock(f, k)
  \/ \E f \in FetchTasks : FetchRecv(f)
  \/ \E f \in FetchTasks : FetchReturn(f)

SpecFetch == Init /\ [][NextFetch]_vars

\* A chat message, handled by handleLine as src/unnamed/part_001 has it
\* (HandleLineCall) or as src/i3build.go has it (HandleLineURLs), next to the
\* refresh of the index main starts.
NextChat ==
  \/ MainRelay
  \/ \E r \in Refreshers : RefreshFail(r)
  \/ \E r \in Refreshers : RefreshGet(r)
  \/ \E r \in Refreshers : RefreshClear(r)
  \/ \E r \in Refreshers : RefreshAppend(r)
  \/ \E r \in Refreshers : RefreshReturn(r)
  \/ \E h \in Messages : HandleLineCall(h)
  \/ \E h \in Messages : HandleLineMatch(h)
  \/ \E h \in Messages : HandleLineReturn(h)
  \/ \E h \in Messages : HandleLineURLs(h)
  \/ \E f \in FetchTasks : \E k \in 1..(MaxTrail + 1) : GetDone(f, k)
  \/ \E f \in FetchTasks : \E k \in 1..(MaxTrail + 1) : GetUnblock(f, k)
  \/ \E f \in FetchTasks : \E k \in 1..(MaxTrail + 1) : TimerFire(f, k)
  \/ \E f \in FetchTasks : \E k \in 1..(MaxTrail + 1) : TimerUnblock(f, k)
  \/ \E f \in FetchTasks : FetchRecv(f)
  \/ \E f \in FetchTasks : FetchReturn(f)

SpecChat == Init /\ [][NextChat]_vars

\* Every goroutine of a title fetch runs: http.Get and time.Sleep return, a
\* send that can complete does, and getURLTitle receives when a value is there.
FairFetch ==
  /\ SpecFetch
  /\ \A f \in FetchTasks :
       /\ WF_vars(FetchRecv(f))
       /\ \A k \in 1..(MaxTrail + 1) :
            /\ WF_vars(GetDone(f, k))
            /\ WF_vars(GetUnblock(f, k))
            /\ WF_vars(TimerFire(f, k))
            /\ WF_vars(TimerUnblock(f, k))

\* Channel messages with one URL, plain or with a trailing ")".
RelayMessages ==
  { ChatMessage("#i3", <<u>>, <<>>) : u \in { <<"u">>, <<"u", ")">> } }

\* The main loop with all the cases of its select, next to a title fetch and
\* to index refreshes that hang in their http.Get or fail.
NextRelay ==
  \/ MainRelay
  \/ ConnectedHandler
  \/ DisconnectedHandler
  \/ RecvQuit
  \/ EveryDayTick
  \/ RecvEveryDay
  \/ \E r \in Refreshers : RefreshFail(r)
  \/ \E h \in Messages : \E msg \in RelayMessages : HandleLineURLsOf(h, msg)
  \/ \E f \in FetchTasks : \E k \in 1..(MaxTrail + 1) : GetDone(f, k)
  \/ \E f \in FetchTasks : \E k \in 1..(MaxTrail + 1) : GetUnblock(f, k)
  \/ \E f \in FetchTasks : \E k \in 1..(MaxTrail + 1) : TimerFire(f, k)
  \/ \E f \in FetchTasks : \E k \in 1..(MaxTrail + 1) : TimerUnblock(f, k)
  \/ \E f \in FetchTasks : FetchRecv(f)
  \/ \E f \in FetchTasks : FetchReturn(f)

SpecRelay == Init /\ [][NextRelay]_vars

\* The main goroutine runs: c.Connect and c.Privmsg return, and the select,
\* which picks among its ready cases at random, takes a line that is offered
\* again and again. Nothing is asked of the title fetches and the refreshes.
FairRelay ==
  /\ SpecRelay
  /\ WF_vars(InitialConnect)
  /\ WF_vars(ConnectOK \/ ConnectFail)
  /\ WF_vars(PrivmsgReturn)
  /\ \A p \in Producers : SF_vars(RecvLine(p))

\* Payloads of /push_buildbot that json.Unmarshal fails on.
MalformedPayloads ==
  { [kind |-> "syntax_error", elems |-> <<>>],
    [kind |-> "array", elems |-> <<Elem("buildFinished", "ok", SampleProps),
                                   Elem("nonstring", "ok", <<>>)>>] }

\* The process: what NextRelay has, malformed /push_buildbot payloads, and the
\* failure of http.ListenAndServe, after which nothing runs any more.
NextProcess ==
  \/ lpc = "serving" /\ NextRelay
  \/ lpc = "serving" /\ \E b \in BuildbotCalls : \E payload \in MalformedPayloads :
                            PushBuildbotDecodeOf(b, payload)
  \/ lpc = "serving" /\ \E b \in BuildbotCalls : PushBuildbotSend(b)
  \/ lpc = "serving" /\ \E b \in BuildbotCalls : PushBuildbotReturn(b)
  \/ ListenAndServeFail

SpecProcess == Init /\ [][NextProcess]_vars

\* The session: connect, disconnect events and reconnects, with one webhook
\* call keeping the select's line case busy.
NextSession ==
  \/ MainRelay
  \/ ConnectedHandler
  \/ DisconnectedHandler
  \/ RecvQuit
  \/ PushCommitRead("commit1")
  \/ PushCommitSend("commit1")
  \/ PushCommitReturn("commit1")

SpecSession == Init /\ [][NextSession]_vars

\* The main goroutine runs: a call it makes returns, and a select with a ready
\* case takes one; the select picks among its ready cases at random, so a case
\* that is ready again and again is taken.
FairSession ==
  /\ SpecSession
  /\ WF_vars(InitialConnect)
  /\ WF_vars(ConnectOK \/ ConnectFail)
  /\ WF_vars(PrivmsgReturn)
  /\ SF_vars(RecvQuit)

Next ==
  \/ InitialConnect
  \/ ConnectOK
  \/ ConnectFail
  \/ ConnectedHandler
  \/ DisconnectedHandler
  \/ \E p \in Producers : RecvLine(p)
  \/ PrivmsgReturn
  \/ RecvQuit
  \/ \E c \in CommitCalls : PushCommitRead(c)
  \/ \E c \in CommitCalls : PushCommitSend(c)
  \/ \E c \in CommitCalls : PushCommitReturn(c)
  \/ \E b \in BuildbotCalls : PushBuildbotDecode(b)
  \/ \E b \in BuildbotCalls : PushBuildbotSend(b)
  \/ \E b \in BuildbotCalls : PushBuildbotReturn(b)

Spec == Init /\ [][Next]_vars
\* ------------------------------------------------------------------ claims
IsPrefix(s, t) == Len(s) <= Len(t) /\ s = SubSeq(t, 1, Len(s))

\* The lines of producer p handed to c.Privmsg so far, in the order of the calls.
SentLines(p) ==
  LET sel == SelectSeq(sent, LAMBDA e : e.from = p)
  IN [i \in 1..Len(sel) |-> sel[i].line]

\* C1: at every moment the lines of one /push_commit call that have been
\* handed to c.Privmsg are a prefix of that call's lines in submission order
\* (nothing reordered, dropped or sent twice), and once the handler has
\* returned all of its lines have been handed over.
C1_PerCallOrder ==
  \A c \in CommitCalls :
    /\ IsPrefix(SentLines(c), clines[c])
    /\ cpc[c] = "done" => SentLines(c) = clines[c]

\* Two calls with two or more lines each have returned and their lines were
\* relayed interleaved.
C1_Witness ==
  /\ \A c \in CommitCalls : cpc[c] = "done" /\ Len(clines[c]) >= 2
  /\ clines["commit1"] # clines["commit2"]
  /\ Len(sent) >= 4
  /\ sent[1].from = "commit1"
  /\ sent[2].from = "commit2"
  /\ sent[3].from = "commit1"

\* C2: every c.Privmsg call is made by the main loop, in the step in which its
\* select takes the line case, with exactly the line received from the
\* producer that offered it; no second call is in progress at any time.
C2_OnlyMainSends ==
  [][ /\ sending' <= 1
      /\ \A i \in 1..Len(sent') : sent'[i].by = "main"
      /\ sent' # sent =>
           /\ mainpc = "select" /\ mainpc' = "privmsg"
           /\ \E p \in Producers :
                /\ to_irc[p] # <<>>
                /\ sent' = Append(sent, [by |-> "main", from |-> p, line |-> to_irc[p][1]])
                /\ to_irc' = [to_irc EXCEPT ![p] = <<>>]
      /\ (mainpc = "select" /\ mainpc' = "privmsg") => Len(sent') = Len(sent) + 1
    ]_vars

\* The main loop is inside c.Privmsg with a line of the /push_buildbot call
\* while the /push_commit call is blocked offering its next line.
C2_Witness ==
  /\ mainpc = "privmsg"
  /\ sending = 1
  /\ Len(sent) >= 2
  /\ sent[Len(sent)].from \in BuildbotCalls
  /\ sent[1].from = "commit1"
  /\ to_irc["commit1"] # <<>>

\* C10: when json.Unmarshal of the packets field returns an error, the request
\* enqueues no chat line.
C10_DecodeErrorIsNoOp ==
  \A b \in BuildbotCalls :
    berr[b] => /\ to_irc[b] = <<>>
               /\ SentLines(b) = <<>>

\* C3: every disconnect event hands exactly one signal to the main loop and
\* every signal received is answered by exactly one c.Connect: no signal is
\* lost or coalesced, the reconnect attempts equal the signals received, and
\* the n-th disconnect event is eventually followed by the n-th reconnect.
C3_OneReconnectPerDisconnect ==
  /\ [](/\ nReconnects = nQuitRecv
        /\ nDisconnects = nQuitRecv + quitq)
  /\ \A n \in 1..MaxDisconnects : (nDisconnects = n) ~> (nReconnects = n)

\* Two disconnect events, each answered by a reconnect, the second successful.
C3_Witness ==
  /\ nDisconnects = 2
  /\ nReconnects = 2
  /\ quitq = 0
  /\ session = "Connected"

\* C4: a state in which the session is Disconnected is eventually followed by
\* a call of c.Connect.
C4_DisconnectedLeadsToConnect ==
  (session = "Disconnected") ~> (session = "Connecting")

\* C5: a connect attempt that ends leaves main in its loop with the session
\* Connected or Disconnected; after the initial attempt c.Connect is called
\* only in the step that receives a disconnect signal; and while the session
\* is Disconnected with no signal pending, it stays Disconnected and the main
\* loop keeps running.
C5_FailedConnectNotRetried ==
  [][ /\ (mainpc = "connecting" /\ mainpc' # "connecting") =>
           (mainpc' = "select" /\ session' \in {"Connected", "Disconnected"})
      /\ nConnects' # nConnects =>
           (nConnects' = nConnects + 1 /\ (mainpc = "start" \/ nQuitRecv' = nQuitRecv + 1))
      /\ (session = "Disconnected" /\ mainpc \in {"select", "privmsg"} /\ quitq = 0) =>
           (session' = "Disconnected" /\ quitq' = 0 /\ mainpc' \in {"select", "privmsg"})
    ]_vars

\* A reconnect has failed, no signal is pending, and the main loop is relaying
\* a line.
C5_Witness ==
  /\ session = "Disconnected"
  /\ nReconnects >= 1
  /\ quitq = 0
  /\ mainpc = "privmsg"

\* The set of the elements of a sequence.
Range(s) == {s[i] : i \in 1..Len(s)}

\* C6: every read of docfiles by handleLine's matcher sees a complete index:
\* while a refresh is between its docfiles = []string{} and its last append,
\* the index from before that refresh or the index that refresh produces.
C6_ReadersSeeCompleteIndex ==
  [][ \A h \in Messages :
        hidx'[h] # hidx[h] =>
          \A r \in Refreshers :
            rpc[r] = "append" => docfiles \in {rold[r], rmatches[r]}
    ]_vars

\* C7: a refresh that fails, or whose listing yields zero matches, leaves
\* docfiles as it was, and a refresh whose listing holds the anchors a.html
\* and b.html ends with the index {a, b}; stated for a refresh that runs while
\* no other refresh is running.
C7_RefreshOutcome ==
  [][ \A r \in Refreshers :
        (\A q \in Refreshers \ {r} : rpc[q] \in {"idle", "done"}) =>
          /\ (rpc[r] = "get" /\ rpc'[r] = "done") => docfiles' = docfiles
          /\ (rpc[r] \in {"clear", "append"} /\ rpc'[r] # rpc[r] /\ rmatches[r] = <<>>) =>
               docfiles' = docfiles
          /\ (rpc[r] = "append" /\ rpc'[r] = "done"
                /\ rmatches[r] = << <<"a">>, <<"b">> >>) =>
               Range(docfiles') = { <<"a">>, <<"b">> }
    ]_vars

\* C8: when the timer fires while http.Get has not completed, getURLTitle
\* takes the timer's nil: it returns with no retry and no chat line, and the
\* task sends no line later either, whatever http.Get then returns.
C8_TimeoutYieldsNothing ==
  \A f \in FetchTasks : \A k \in 1..Len(fframes[f]) :
    LET fr == fframes[f][k] IN
    fr.late =>
      IF fr.recv = <<>>
        THEN fr.chan = <<"timer">> /\ SentLines(f) = <<>> /\ to_irc[f] = <<>>
        ELSE /\ fr.recv[1].nil
             /\ k = Len(fframes[f])
             /\ fpc[f] = "done"
             /\ to_irc[f] = <<>>
             /\ SentLines(f) = <<>>

\* The fetch has returned on the timer's nil, and http.Get has completed since:
\* its value sits in the buffer of result, which nobody receives from.
C8_Witness ==
  \E f \in FetchTasks :
    /\ fpc[f] = "done"
    /\ Len(fframes[f]) = 1
    /\ fframes[f][1].late
    /\ fframes[f][1].recv # <<>>
    /\ fframes[f][1].get = "done"
    /\ fframes[f][1].chan = <<"get">>
    /\ mainpc = "select"

\* The value an invocation received makes it retry: a 404 for a URL ending in
\* "," or ")".
IsRetry(fr) ==
  /\ ~fr.recv[1].nil
  /\ fr.recv[1].status = 404
  /\ (HasSuffix(fr.url, ",") \/ HasSuffix(fr.url, ")"))

\* An invocation that received nil or a status other than 200, and no retry
\* case, is the last one of its task and the task sends no line.
NoLineNoRetry(f, k) ==
  LET fr == fframes[f][k] IN
  (~IsRetry(fr) /\ (fr.recv[1].nil \/ fr.recv[1].status # 200)) =>
    /\ k = Len(fframes[f])
    /\ to_irc[f] = <<>>
    /\ SentLines(f) = <<>>

\* C9 as stated: a 404 for a URL ending in "," or ")" is retried exactly once,
\* with that one trailing character stripped; the retry is never retried; any
\* other non-200 status yields no chat line and no retry.
C9_RetryStripsOneChar ==
  \A f \in FetchTasks :
    /\ Len(fframes[f]) <= 2
    /\ \A k \in 1..Len(fframes[f]) :
         LET fr == fframes[f][k] IN
         fr.recv # <<>> =>
           /\ (k = 1 /\ IsRetry(fr)) =>
                /\ Len(fframes[f]) = 2
                /\ fframes[f][2].url = SubSeq(fr.url, 1, Len(fr.url) - 1)
           /\ NoLineNoRetry(f, k)

\* C9 as amended: the retry is against the URL with all of its trailing ","
\* and ")" characters stripped.
C9_RetryStripsAllTrailing ==
  \A f \in FetchTasks :
    /\ Len(fframes[f]) <= 2
    /\ \A k \in 1..Len(fframes[f]) :
         LET fr == fframes[f][k] IN
         fr.recv # <<>> =>
           /\ (k = 1 /\ IsRetry(fr)) =>
                /\ Len(fframes[f]) = 2
                /\ LET u == fframes[f][2].url IN
                     /\ IsPrefix(u, fr.url)
                     /\ \A i \in (Len(u) + 1)..Len(fr.url) : fr.url[i] \in {",", ")"}
                     /\ ~HasSuffix(u, ",") /\ ~HasSuffix(u, ")")
           /\ NoLineNoRetry(f, k)

\* A fetch of a URL with two trailing characters got a 404, retried with both
\* stripped, got a 404 again and returned.
C9_Witness ==
  \E f \in FetchTasks :
    /\ fpc[f] = "done"
    /\ Len(fframes[f]) = 2
    /\ Len(fframes[f][1].url) = Len(fframes[f][2].url) + 2
    /\ fframes[f][2].recv # <<>>
    /\ ~fframes[f][2].recv[1].nil
    /\ fframes[f][2].recv[1].status = 404

\* The envelope of a payload is well formed: a JSON array of objects whose
\* "event" member, if there is one, is a string.
EnvelopeOK(payload) ==
  /\ payload.kind = "array"
  /\ \A i \in 1..Len(payload.elems) : payload.elems[i].event \notin {"nonobject", "nonstring"}

\* C11: a payload with a well-formed envelope decodes without an error, and
\* each of its buildFinished events is decoded to an event that renders,
\* whatever is missing or wrongly typed inside the event.
C11_AnomaliesInsideEventTolerated ==
  \A b \in BuildbotCalls :
    (bpc[b] # "idle" /\ EnvelopeOK(bpayload[b][1])) =>
      /\ ~berr[b]
      /\ Len(bpackets[b]) = Len(bpayload[b][1].elems)
      /\ \A i \in 1..Len(bpackets[b]) :
           bpayload[b][1].elems[i].event = "buildFinished" => bpackets[b][i] # <<>>

\* The lines producer p has enqueued so far: those the main loop has taken,
\* and the one p is offering.
Enqueued(p) == SentLines(p) \o to_irc[p]

\* The value of the last property of three elements whose key is the string
\* key and whose value is a string, or the empty string.
LastValue(props, key) ==
  LET S == { i \in 1..Len(props) :
               /\ Len(props[i]) = 3
               /\ props[i][1] = JStr(key)
               /\ props[i][2].t = "string" }
  IN IF S = {} THEN <<>>
     ELSE props[CHOOSE i \in S : \A j \in S : j <= i][2].s

\* "<builder_name> finished for <version_label><suffix>"
ExpectedLine(props) ==
  LastValue(props, <<"buildername">>) \o <<" finished for ">>
    \o LastValue(props, <<"gitversion">>) \o LastValue(props, <<"ircsuffix">>)

\* One line per buildFinished event of elems, in order.
RECURSIVE BuildFinishedLines(_)
BuildFinishedLines(elems) ==
  IF elems = <<>> THEN <<>>
  ELSE (IF Head(elems).event = "buildFinished"
          THEN <<ExpectedLine(Head(elems).props)>> ELSE <<>>)
       \o BuildFinishedLines(Tail(elems))

\* C14: a batch of buildFinished events and events with another discriminator
\* decodes without an error; for a batch decoded without an error the handler
\* enqueues one line per buildFinished event, in the order of the batch, and
\* nothing else, and has enqueued all of them when it returns.
C14_OneLinePerBuildFinished ==
  \A b \in BuildbotCalls :
    bpc[b] # "idle" =>
      LET payload == bpayload[b][1] IN
      /\ (/\ payload.kind = "array"
          /\ \A i \in 1..Len(payload.elems) :
               /\ payload.elems[i].event \in {"buildFinished", "other"}
               /\ payload.elems[i].payload = "ok") => ~berr[b]
      /\ ~berr[b] =>
           /\ IsPrefix(Enqueued(b), BuildFinishedLines(payload.elems))
           /\ bpc[b] = "done" => Enqueued(b) = BuildFinishedLines(payload.elems)

\* The handler has returned from a batch of an unrecognized event followed by
\* a buildFinished event, whose line has been sent.
C14_Witness ==
  \E b \in BuildbotCalls :
    /\ bpc[b] = "done"
    /\ ~berr[b]
    /\ Len(bpayload[b][1].elems) = 2
    /\ bpayload[b][1].elems[1].event = "other"
    /\ bpayload[b][1].elems[2].event = "buildFinished"
    /\ Len(SentLines(b)) = 1

\* C16: the line rendered for a buildFinished event is
\* "<builder_name> finished for <version_label><suffix>", each field being the
\* value of the last property of three elements with that key and a string
\* value, or empty; it is the line the handler enqueues.
C16_RenderedLine ==
  \A b \in BuildbotCalls :
    bpc[b] # "idle" =>
      /\ \A i \in 1..Len(bpackets[b]) :
           bpackets[b][i] # <<>> =>
             AsChatLine(bpackets[b][i][1]) = ExpectedLine(bpayload[b][1].elems[i].props)
      /\ \A i \in 1..Len(Enqueued(b)) :
           \E j \in 1..Len(bpayload[b][1].elems) :
             Enqueued(b)[i] = ExpectedLine(bpayload[b][1].elems[j].props)

\* The line of an event with two buildername properties, a property of two
\* elements and one with a value that is no string has been sent.
C16_Witness ==
  \E b \in BuildbotCalls :
    /\ Len(SentLines(b)) = 1
    /\ LET props == bpayload[b][1].elems[1].props IN
         /\ Len(props) = 3
         /\ props[1] = <<JStr(<<"buildername">>), JStr(<<"x">>), JStr(<<"Builder">>)>>
         /\ props[2] = <<JStr(<<"buildername">>), JStr(<<"y">>), JNum>>
         /\ props[3] = <<JStr(<<"ircsuffix">>), JNum, JStr(<<"Build">>)>>
         /\ SentLines(b)[1] = <<"y", " finished for ">>

\* C15: each token the matcher looks at yields the line
\* "[Documentation reference] http://i3wm.org/docs/<name>.html<#fragment>" when
\* its lower-cased name is an entry of the index, and no line otherwise.
C15_MatchEmitsForKnownNames ==
  [][\A h \in Messages :
       hidx'[h] # hidx[h] =>
         LET match == hmatches[h][hidx[h]] IN
         IF \E i \in 1..Len(docfiles) : docfiles[i] = ToLower(match.name)
           THEN to_irc'[h] = <<DocRefLine(DocRef(ToLower(match.name), match.frag))>>
           ELSE to_irc'[h] = <<>>]_vars

\* C12: once handleLine has returned from a message for the channel, it has
\* started one title fetch per URL of the message and has run the matcher
\* over all the documentation references of the message.
C12_HandlerFetchesAndMatches ==
  \A h \in Messages :
    (hpc[h] = "done" /\ hmsg[h][1].target = irc_channel) =>
      /\ Cardinality({f \in FetchTasks : fframes[f] # <<>>}) = Len(hmsg[h][1].urls)
      /\ hmatches[h] = hmsg[h][1].refs
      /\ hidx[h] = Len(hmsg[h][1].refs) + 1

\* C17: the call of handleLine with a message whose target is not the channel
\* returns at once and changes nothing: no line is offered on to_irc, no title
\* fetch is started, no documentation reference is looked up, and docfiles and
\* the session are as before.
C17_OtherTargetDropped ==
  [][\A h \in Messages :
       (hpc[h] = "idle" /\ hpc'[h] # "idle" /\ hmsg'[h][1].target # irc_channel) =>
         /\ hpc'[h] = "done"
         /\ UNCHANGED <<to_irc, docfiles, mainVars, fetchVars, hmatches, hidx>>]_vars

\* handleLine has returned from a private message with a URL and a reference
\* to a document that is in the index.
C17_Witness ==
  \E h \in Messages :
    /\ hpc[h] = "done"
    /\ hmsg[h][1].target # irc_channel
    /\ hmsg[h][1].urls # <<>>
    /\ hmsg[h][1].refs # <<>>
    /\ \E i \in 1..Len(docfiles) : docfiles[i] = hmsg[h][1].refs[1].name
    /\ mainpc = "select"

\* C19: a title fetch enqueues at most one line, and only when its last
\* invocation received, with the timer not having fired before http.Get
\* completed, a response of status 200 with a body line matching the title
\* expression; the line is "[Link info] " and the inner text of the first such
\* body line. A fetch that has returned from a body without a match has
\* enqueued nothing.
C19_AtMostOneTitleLine ==
  \A f \in FetchTasks :
    /\ Len(Enqueued(f)) <= 1
    /\ Enqueued(f) # <<>> =>
         LET fr == fframes[f][Len(fframes[f])] IN
         /\ fr.recv # <<>>
         /\ ~fr.late
         /\ ~fr.recv[1].nil
         /\ fr.recv[1].status = 200
         /\ \E i \in 1..Len(fr.recv[1].body) :
              /\ fr.recv[1].body[i] # <<>>
              /\ \A j \in 1..(i - 1) : fr.recv[1].body[j] = <<>>
              /\ Enqueued(f)[1] = <<"[Link info] ">> \o fr.recv[1].body[i][1]
    /\ fpc[f] = "done" =>
         LET fr == fframes[f][Len(fframes[f])] IN
         (\A i \in 1..Len(fr.recv[1].body) : fr.recv[1].body[i] = <<>>)
           => Enqueued(f) = <<>>

\* A retried fetch has sent the first of the two titles in the body of the 200
\* response its retry received.
C19_Witness ==
  \E f \in FetchTasks :
    /\ fpc[f] = "done"
    /\ Len(fframes[f]) = 2
    /\ fframes[f][2].recv # <<>>
    /\ fframes[f][2].recv[1].body = << << <<"T">> >>, << <<"S">> >> >>
    /\ SentLines(f) = << <<"[Link info] ", "T">> >>

\* C20: in every invocation of getURLTitle both the http.Get goroutine and the
\* timer goroutine complete their send on result and terminate.
C20_BothSendersTerminate ==
  \A f \in FetchTasks : \A k \in 1..(MaxTrail + 1) :
    (Len(fframes[f]) >= k) ~>
      (/\ Len(fframes[f]) >= k
       /\ fframes[f][k].get = "done"
       /\ fframes[f][k].timer = "done")

\* The loser of the race, whose send had blocked on the full buffer, has
\* completed it after getURLTitle received the winner's value; its own value
\* stays in the buffer.
C20_Witness ==
  \E f \in FetchTasks :
    /\ Len(fframes[f]) = 1
    /\ fframes[f][1].get = "done"
    /\ fframes[f][1].timer = "done"
    /\ fframes[f][1].recv # <<>>
    /\ fframes[f][1].chan # <<>>
    /\ fpc[f] = "done"

\* C13: main is before its loop or in it, in the select or in a call made
\* from a case of the select: it is never past the loop and never ends the
\* process. The process ends only by the log.Fatal after http.ListenAndServe.
C13_MainLoopKeepsRunning ==
  /\ mainpc \in {"start", "connecting", "select", "privmsg"}
  /\ lpc \in {"serving", "fatal"}

\* After a payload json.Unmarshal failed on, a title fetch that timed out, a
\* failed index refresh, a disconnect and a failed reconnect, the process is
\* running and main is in its select.
C13_Witness ==
  /\ lpc = "serving"
  /\ mainpc = "select"
  /\ \E b \in BuildbotCalls : bpc[b] = "done" /\ berr[b]
  /\ \E f \in FetchTasks :
       fpc[f] = "done" /\ fframes[f][1].late /\ fframes[f][1].recv # <<>>
  /\ rpc[0] = "done"
  /\ nDisconnects >= 1
  /\ nReconnects >= 1
  /\ session = "Disconnected"
  /\ quitq = 0

\* C18: a line a producer offers on to_irc is eventually taken by the main
\* loop, which hands it to c.Privmsg, and main always comes back to its
\* select, whatever the title fetches and the index refreshes do.
C18_RelayNotStalled ==
  /\ \A p \in Producers : (to_irc[p] # <<>>) ~> (to_irc[p] = <<>>)
  /\ (mainpc # "select") ~> (mainpc = "select")

\* The line of a title fetch has been handed to c.Privmsg while a refresh of
\* the index is in its http.Get.
C18_Witness ==
  \E f \in FetchTasks :
    /\ Len(SentLines(f)) = 1
    /\ \E r \in Refreshers : rpc[r] = "get"
    /\ nDisconnects >= 1

\* C21: whatever the state of the session, a line leaves to_irc only by the
\* main loop taking it, and in that step it is handed to c.Privmsg, once;
\* c.Privmsg is called for nothing else, so no line is sent again later, for
\* one after a reconnect; and main puts no line on to_irc.
C21_ForwardedOnceWhateverSession ==
  [][/\ \A p \in Producers :
          (to_irc[p] # <<>> /\ to_irc'[p] # to_irc[p]) =>
            /\ to_irc'[p] = <<>>
            /\ sent' = Append(sent, Privmsg("main", p, to_irc[p][1]))
            /\ session' = session
     /\ sent' # sent =>
          \E p \in Producers :
            /\ to_irc[p] # <<>>
            /\ to_irc'[p] = <<>>
            /\ sent' = Append(sent, Privmsg("main", p, to_irc[p][1]))
     /\ mainpc' # mainpc => to_irc' = to_irc \/ sent' # sent]_vars

\* The main loop is in c.Privmsg with a line it took after a disconnect and
\* before the reconnect, the session being Disconnected.
C21_Witness ==
  /\ mainpc = "privmsg"
  /\ session = "Disconnected"
  /\ nDisconnects >= 1
  /\ quitq >= 1
  /\ Len(sent) >= 1
====
